---- MODULE Spec2Model ----
(***************************************************************************)
(* A model of workbox-core's fetchWrapper.fetch (wrappedFetch): one        *)
(* invocation of the wrapper, from its arguments to the value it returns   *)
(* or the error it throws.  Every await of the function is one step.       *)
(*                                                                         *)
(* Values are records with a "kind" field, so that any two of them can be  *)
(* compared: undefined, null, Request, Response, Error, TypeError,         *)
(* WorkboxError.  Object identity is the "id" field: two requests with the *)
(* same url but different ids are different objects.                       *)
(***************************************************************************)
EXTENDS Integers, Sequences, FiniteSets, TLC

\* The longest plugin list the model draws.
MaxPlugins == 2

VARIABLES
    plugins,               \* options.plugins: per plugin, the set of hooks it has
    event,                 \* options.event
    fetchOptions,          \* options.fetchOptions
    request,               \* the local `request`, reassigned by requestWillFetch
    failedFetchPlugins,    \* indices into plugins of those with fetchDidFail
    originalRequest,       \* the clone saved for fetchDidFail, or null
    pluginFilteredRequest, \* the clone taken after the requestWillFetch loop
    fetchResponse,         \* the local `fetchResponse`
    error,                 \* the `error` bound by the second catch
    pc,                    \* the position in wrappedFetch
    i,                     \* the position of the running for..of loop
    result,                \* what the invocation returned or threw
    calls,                 \* history: the hooks invoked so far, in order
    last,                  \* history: per hook, its most recent invocation
    replacement,           \* history: the last value a fetchDidSucceed hook returned
    fetchCalls,            \* history: the calls of the host fetch()
    preloadAwaits,         \* history: what each await of event.preloadResponse gave
    running                \* the hooks and the fetch() started and not yet settled

vars == <<plugins, event, fetchOptions, request, failedFetchPlugins,
          originalRequest, pluginFilteredRequest, fetchResponse, error, pc, i,
          result, calls, last, replacement, fetchCalls, preloadAwaits,
          running>>

(***************************************************************************)
(* Values                                                                  *)
(***************************************************************************)
Undefined == [kind |-> "undefined"]
Null == [kind |-> "null"]

\* pluginEvents: the names of the three hooks wrappedFetch dispatches.
REQUEST_WILL_FETCH == "requestWillFetch"
FETCH_DID_SUCCEED == "fetchDidSucceed"
FETCH_DID_FAIL == "fetchDidFail"
Hooks == {REQUEST_WILL_FETCH, FETCH_DID_SUCCEED, FETCH_DID_FAIL}

Id(site, n) == [site |-> site, n |-> n]

\* A Request object.  url 0 is the caller's url; a requestWillFetch hook of
\* plugin n that builds a request of its own gives it url n.
Request(id, url, mode) ==
    [kind |-> "Request", id |-> id, url |-> url, mode |-> mode, bodyUsed |-> FALSE]

IsRequest(r) == r.kind = "Request"

\* Request.prototype.clone() succeeds on a Request whose body was not read;
\* on undefined, and on a Request with a used body, it throws a TypeError.
CanClone(r) == IsRequest(r) /\ ~r.bodyUsed

\* r.clone(): a new object with the same url and mode and an unread body.
Clone(r, id) == [r EXCEPT !.id = id, !.bodyUsed = FALSE]

\* Reading the body of a request marks that object, and no other, as used.
ReadBody(r) == [r EXCEPT !.bodyUsed = TRUE]

Response(id) == [kind |-> "Response", id |-> id]

\* An error thrown by a hook, by fetch() or by a rejected preload promise.
Thrown(site, n) == [kind |-> "Error", id |-> Id(site, n)]

\* The TypeError of x.clone() on undefined or on a used body.
TypeError(site, n) == [kind |-> "TypeError", id |-> Id(site, n)]

\* new WorkboxError(errorCode, details): name is the code, details is kept.
WorkboxError(errorCode, details) ==
    [kind |-> "WorkboxError", name |-> errorCode, details |-> details]

\* pluginUtils.filter(plugins, hook): the plugins that have the hook, in
\* the order of the list (as indices into the list).
RECURSIVE FilterFrom(_, _, _)
FilterFrom(ps, hook, k) ==
    IF k > Len(ps) THEN <<>>
    ELSE (IF hook \in ps[k] THEN <<k>> ELSE <<>>) \o FilterFrom(ps, hook, k + 1)

Filter(ps, hook) == FilterFrom(ps, hook, 1)

(***************************************************************************)
(* History records                                                         *)
(***************************************************************************)
NoCall == [kind |-> "nocall"]

Returned(v) == [kind |-> "return", value |-> v]
Threw(e) == [kind |-> "throw", error |-> e]
Pending == [kind |-> "pending"]

(***************************************************************************)
(* Inputs                                                                  *)
(***************************************************************************)
\* Plugin lists: every list of at most MaxPlugins plugins, a plugin being
\* the set of hooks it implements (the empty set: a plugin with other hooks).
PluginLists == UNION {[1..n -> SUBSET Hooks] : n \in 0..MaxPlugins}

\* options.event: absent, an Event that is no FetchEvent, a FetchEvent
\* without preloadResponse, a FetchEvent with a preloadResponse promise.
Events == {"none", "Event", "FetchEvent", "FetchEventPreload"}

\* options.request: a url string, or a Request of either mode.
CallerRequests ==
    {[kind |-> "string", url |-> 0]}
    \cup {Request(Id("caller", 0), 0, m) : m \in {"navigate", "cors"}}

FetchOptionsValues == {Undefined, [kind |-> "options"]}

Init ==
    /\ plugins \in PluginLists
    /\ event \in Events
    /\ fetchOptions \in FetchOptionsValues
    /\ request \in CallerRequests
    /\ failedFetchPlugins = <<>>
    /\ originalRequest = Null
    /\ pluginFilteredRequest = Undefined
    /\ fetchResponse = Undefined
    /\ error = Undefined
    /\ pc = "start"
    /\ i = 0
    /\ result = Pending
    /\ calls = <<>>
    /\ last = [h \in Hooks |-> NoCall]
    /\ replacement = Undefined
    /\ fetchCalls = <<>>
    /\ preloadAwaits = <<>>
    /\ running = {}


(***************************************************************************)
(* What a hook may do when it is invoked.  Hooks are the caller's code:    *)
(* each invocation draws one of these.                                     *)
(***************************************************************************)
\* read: the hook reads the body of the request it was handed.
\* ret: it returns nothing, the object it was handed, or an object of its own.
\* threw: it throws (or its promise rejects) instead of returning.
HookOutcomes ==
    {[read |-> r, ret |-> v, threw |-> FALSE] :
        r \in BOOLEAN, v \in {"nothing", "same", "new"}}
    \cup {[read |-> r, ret |-> "nothing", threw |-> TRUE] : r \in BOOLEAN}

\* The record kept of one hook invocation: the plugin, the arguments as
\* they were passed, and what the hook did.
Call(plugin, args, out, outcome) ==
    [kind |-> "call", plugin |-> plugin, args |-> args, read |-> out.read,
     outcome |-> outcome]

\* The value a requestWillFetch hook of plugin k returns when handed arg.
RwfValue(arg, out, k) ==
    CASE out.ret = "nothing" -> Undefined
      [] out.ret = "same" -> IF out.read THEN ReadBody(arg) ELSE arg
      [] out.ret = "new" -> Request(Id("requestWillFetch", k), k, "cors")

\* The value a fetchDidSucceed hook of plugin k returns when handed response.
FdsValue(response, out, k) ==
    CASE out.ret = "nothing" -> Undefined
      [] out.ret = "same" -> response
      [] out.ret = "new" -> Response(Id("fetchDidSucceed", k))

(***************************************************************************)
(* wrappedFetch, step by step                                              *)
(***************************************************************************)
\* Lines 47-49: a string is turned into a Request (of mode cors).
Normalize(r) ==
    IF r.kind = "string" THEN Request(Id("caller", 0), r.url, "cors") ELSE r

\* Line 54: event instanceof FetchEvent && event.preloadResponse.
HasPreload(ev) == ev = "FetchEventPreload"

\* Lines 47-54: normalise the request and test for a preload response.
Start ==
    /\ pc = "start"
    /\ request' = Normalize(request)
    /\ pc' = IF HasPreload(event) THEN "preload" ELSE "filter"
    /\ UNCHANGED <<plugins, event, fetchOptions, failedFetchPlugins,
                   originalRequest, pluginFilteredRequest, fetchResponse,
                   error, i, result, calls, last, replacement, fetchCalls,
                   preloadAwaits, running>>

\* What awaiting event.preloadResponse can yield: a Response, nothing,
\* or a rejection.
PreloadOutcomes ==
    {Returned(Response(Id("preload", 0))), Returned(Undefined),
     Threw(Thrown("preload", 0))}

\* A wrappedFetch that goes on to the network although the preload promise
\* gave a response.
PreloadNextIgnored(settled) ==
    IF settled.kind = "throw"
    THEN /\ result' = settled
         /\ pc' = "done"
    ELSE /\ result' = result
         /\ pc' = "filter"

\* A wrappedFetch that returns whatever the preload promise resolved to,
\* nothing included.
PreloadNextEmptyReturned(settled) ==
    IF settled.kind = "throw"
    THEN /\ result' = settled
         /\ pc' = "done"
    ELSE /\ result' = Returned(settled.value)
         /\ pc' = "done"

\* Lines 55-63: what wrappedFetch does with the settled preload promise.
PreloadNext(settled) ==
    IF settled.kind = "throw"
    THEN /\ result' = settled
         /\ pc' = "done"
    ELSE IF settled.value # Undefined
    THEN /\ result' = Returned(settled.value)
         /\ pc' = "done"
    ELSE /\ result' = result
         /\ pc' = "filter"

\* A preload branch that catches the rejection of the promise and goes on
\* to the network.
AwaitPreloadCaught ==
    /\ pc = "preload"
    /\ \E settled \in PreloadOutcomes :
          /\ preloadAwaits' = Append(preloadAwaits, settled)
          /\ PreloadNext(IF settled.kind = "throw" THEN Returned(Undefined)
                         ELSE settled)
    /\ UNCHANGED <<plugins, event, fetchOptions, request, failedFetchPlugins,
                   originalRequest, pluginFilteredRequest, fetchResponse,
                   error, i, calls, last, replacement, fetchCalls,
                   running>>

\* Lines 55-63: await event.preloadResponse.
AwaitPreload ==
    /\ pc = "preload"
    /\ \E settled \in PreloadOutcomes :
          /\ preloadAwaits' = Append(preloadAwaits, settled)
          /\ PreloadNext(settled)
    /\ UNCHANGED <<plugins, event, fetchOptions, request, failedFetchPlugins,
                   originalRequest, pluginFilteredRequest, fetchResponse,
                   error, i, calls, last, replacement, fetchCalls,
                   running>>

\* Lines 75-82: select the fetchDidFail plugins; save a clone of the request
\* if there is one.
FilterFailed ==
    /\ pc = "filter"
    /\ failedFetchPlugins' = Filter(plugins, FETCH_DID_FAIL)
    /\ originalRequest' =
          IF Len(Filter(plugins, FETCH_DID_FAIL)) > 0
          THEN Clone(request, Id("original", 0))
          ELSE Null
    /\ pc' = "requestWillFetch"
    /\ i' = 1
    /\ UNCHANGED <<plugins, event, fetchOptions, request,
                   pluginFilteredRequest, fetchResponse, error, result, calls,
                   last, replacement, fetchCalls,
                   preloadAwaits, running>>

\* A first catch that rethrows the error it caught as it is.
RequestWillFetchErrorUnwrapped(err) == err

\* Lines 106-110: what the first catch throws for the error it caught.
RequestWillFetchError(err) ==
    WorkboxError("plugin-error-request-will-fetch", [thrownError |-> err])

\* A loop that may pass over a plugin whether or not it has the hook.
RequestWillFetchSkipAny ==
    /\ pc = "requestWillFetch"
    /\ i <= Len(plugins)
    /\ i' = i + 1
    /\ UNCHANGED <<plugins, event, fetchOptions, request, failedFetchPlugins,
                   originalRequest, pluginFilteredRequest, fetchResponse,
                   error, pc, result, calls, last, replacement, fetchCalls,
                   preloadAwaits, running>>

\* Line 86 evaluating to false: the plugin has no requestWillFetch.
RequestWillFetchSkip ==
    /\ pc = "requestWillFetch"
    /\ i <= Len(plugins)
    /\ REQUEST_WILL_FETCH \notin plugins[i]
    /\ i' = i + 1
    /\ UNCHANGED <<plugins, event, fetchOptions, request, failedFetchPlugins,
                   originalRequest, pluginFilteredRequest, fetchResponse,
                   error, pc, result, calls, last, replacement, fetchCalls,
                   preloadAwaits, running>>

\* A loop that calls the hook and drops what it returns.
RequestAfterHookKept(current, v) == current

\* Line 90: the local request after a hook returned value v.
RequestAfterHook(current, v) == v

\* A loop that hands the hook the request itself.
RequestWillFetchArgumentShared(req, k) == req

\* Line 88: the clone of the request that the hook of plugin k is handed.
RequestWillFetchArgument(req, k) == Clone(req, Id("requestClone", k))

\* The hook of plugin k, as an activity in flight.
Activity(hook, k) == [hook |-> hook, plugin |-> k]

\* Lines 86-93 and 106-110: clone the request and call the hook with the
\* clone; the TypeError of the clone() is caught and wrapped.  The await of
\* line 90 suspends wrappedFetch until the hook settles.
RequestWillFetchCall ==
    /\ pc = "requestWillFetch"
    /\ i <= Len(plugins)
    /\ REQUEST_WILL_FETCH \in plugins[i]
    /\ IF ~CanClone(request)
       THEN /\ result' = Threw(RequestWillFetchError(TypeError("requestClone", i)))
            /\ pc' = "done"
            /\ UNCHANGED <<calls, last, running>>
       ELSE /\ calls' = Append(calls, Activity(REQUEST_WILL_FETCH, i))
            /\ last' = [last EXCEPT ![REQUEST_WILL_FETCH] =
                          Call(i, [request |-> RequestWillFetchArgument(request, i)],
                               [read |-> FALSE], Pending)]
            /\ running' = running \cup {Activity(REQUEST_WILL_FETCH, i)}
            /\ pc' = "requestWillFetchAwait"
            /\ UNCHANGED result
    /\ UNCHANGED <<plugins, event, fetchOptions, request, failedFetchPlugins,
                   originalRequest, pluginFilteredRequest, fetchResponse,
                   error, i, replacement, fetchCalls, preloadAwaits>>

\* Lines 90-93 and 106-110: the hook settles.  What it returns is assigned
\* to request; its error is caught and wrapped.
RequestWillFetchSettle ==
    /\ pc = "requestWillFetchAwait"
    /\ \E out \in HookOutcomes :
          LET c == last[REQUEST_WILL_FETCH]
              value == RwfValue(c.args.request, out, i)
              err == Thrown(REQUEST_WILL_FETCH, i)
          IN  /\ last' = [last EXCEPT ![REQUEST_WILL_FETCH] =
                            Call(i, c.args, out,
                                 IF out.threw THEN Threw(err) ELSE Returned(value))]
              /\ IF out.threw
                 THEN /\ result' = Threw(RequestWillFetchError(err))
                      /\ pc' = "done"
                      /\ UNCHANGED <<request, i>>
                 ELSE /\ request' = RequestAfterHook(request, value)
                      /\ i' = i + 1
                      /\ pc' = "requestWillFetch"
                      /\ UNCHANGED result
    /\ running' = running \ {Activity(REQUEST_WILL_FETCH, i)}
    /\ UNCHANGED <<plugins, event, fetchOptions, failedFetchPlugins,
                   originalRequest, pluginFilteredRequest, fetchResponse,
                   error, calls, replacement, fetchCalls, preloadAwaits>>

\* Line 115, after the loop: clone the request for the hooks to come.  The
\* clone() is outside both try blocks: its TypeError reaches the caller.
CloneFiltered ==
    /\ pc = "requestWillFetch"
    /\ i > Len(plugins)
    /\ IF CanClone(request)
       THEN /\ pluginFilteredRequest' = Clone(request, Id("pluginFilteredRequest", 0))
            /\ pc' = "fetch"
            /\ UNCHANGED result
       ELSE /\ result' = Threw(TypeError("pluginFilteredRequest", 0))
            /\ pc' = "done"
            /\ UNCHANGED pluginFilteredRequest
    /\ UNCHANGED <<plugins, event, fetchOptions, request, failedFetchPlugins,
                   originalRequest, fetchResponse, error, i, calls, last,
                   replacement, fetchCalls,
                   preloadAwaits, running>>


\* A fetch() that is passed fetchOptions whatever the mode of the request.
FetchArgumentsWithOptions(req, options) ==
    [request |-> req, argc |-> 2, options |-> options]

\* Lines 121-125: the arguments fetch() is called with: the request alone
\* for a navigation, the request and fetchOptions otherwise.
FetchArguments(req, options) ==
    IF req.mode = "navigate"
    THEN [request |-> req, argc |-> 1, options |-> Undefined]
    ELSE [request |-> req, argc |-> 2, options |-> options]

\* fetch(), as an activity in flight.
Transmission == Activity("fetch", 0)

\* Lines 117-125: call fetch() once.  fetch() reads the body of the request
\* it is given.  The await suspends wrappedFetch until fetch() settles.
Fetch ==
    /\ pc = "fetch"
    /\ fetchCalls' = Append(fetchCalls, FetchArguments(request, fetchOptions))
    /\ request' = ReadBody(request)
    /\ running' = running \cup {Transmission}
    /\ pc' = "fetchAwait"
    /\ UNCHANGED <<plugins, event, fetchOptions, failedFetchPlugins,
                   originalRequest, pluginFilteredRequest, fetchResponse,
                   error, i, result, calls, last, replacement, preloadAwaits>>

\* Lines 122-125 and 155: fetch() resolves to a Response, or rejects, and
\* the rejection is caught at line 155.
FetchSettle ==
    /\ pc = "fetchAwait"
    /\ \E ok \in BOOLEAN :
          IF ok
          THEN /\ fetchResponse' = Response(Id("fetch", 0))
               /\ pc' = "fetchDidSucceed"
               /\ UNCHANGED error
          ELSE /\ error' = Thrown("fetch", 0)
               /\ pc' = "fetchDidFail"
               /\ UNCHANGED fetchResponse
    /\ i' = 1
    /\ running' = running \ {Transmission}
    /\ UNCHANGED <<plugins, event, fetchOptions, request, failedFetchPlugins,
                   originalRequest, pluginFilteredRequest, result, calls,
                   last, replacement, fetchCalls, preloadAwaits>>

\* Line 134 evaluating to false: the plugin has no fetchDidSucceed.
FetchDidSucceedSkip ==
    /\ pc = "fetchDidSucceed"
    /\ i <= Len(plugins)
    /\ FETCH_DID_SUCCEED \notin plugins[i]
    /\ i' = i + 1
    /\ UNCHANGED <<plugins, event, fetchOptions, request, failedFetchPlugins,
                   originalRequest, pluginFilteredRequest, fetchResponse,
                   error, pc, result, calls, last, replacement, fetchCalls,
                   preloadAwaits, running>>

\* Line 135: the local fetchResponse after a hook returned value v.
ResponseAfterHook(current, v) == v

\* Lines 134-140: call the hook with pluginFilteredRequest itself and the
\* current fetchResponse.  The await of line 135 suspends wrappedFetch until
\* the hook settles.
FetchDidSucceedCall ==
    /\ pc = "fetchDidSucceed"
    /\ i <= Len(plugins)
    /\ FETCH_DID_SUCCEED \in plugins[i]
    /\ calls' = Append(calls, Activity(FETCH_DID_SUCCEED, i))
    /\ last' = [last EXCEPT ![FETCH_DID_SUCCEED] =
                  Call(i, [request |-> pluginFilteredRequest,
                           response |-> fetchResponse],
                       [read |-> FALSE], Pending)]
    /\ running' = running \cup {Activity(FETCH_DID_SUCCEED, i)}
    /\ pc' = "fetchDidSucceedAwait"
    /\ UNCHANGED <<plugins, event, fetchOptions, request, failedFetchPlugins,
                   originalRequest, pluginFilteredRequest, fetchResponse,
                   error, i, result, replacement, fetchCalls, preloadAwaits>>

\* Lines 135-140 and 155: the hook settles.  What it returns is assigned to
\* fetchResponse; its error is caught at line 155.  The hook was handed
\* pluginFilteredRequest itself: if it read the body, that object is used.
\* A hook can read the body of the request only while it is unread.
FetchDidSucceedSettle ==
    /\ pc = "fetchDidSucceedAwait"
    /\ \E out \in HookOutcomes :
          LET c == last[FETCH_DID_SUCCEED]
              value == FdsValue(c.args.response, out, i)
              err == Thrown(FETCH_DID_SUCCEED, i)
          IN  /\ out.read => ~pluginFilteredRequest.bodyUsed
              /\ last' = [last EXCEPT ![FETCH_DID_SUCCEED] =
                            Call(i, c.args, out,
                                 IF out.threw THEN Threw(err) ELSE Returned(value))]
              /\ pluginFilteredRequest' =
                    IF out.read THEN ReadBody(pluginFilteredRequest)
                    ELSE pluginFilteredRequest
              /\ IF out.threw
                 THEN /\ error' = err
                      /\ pc' = "fetchDidFail"
                      /\ i' = 1
                      /\ UNCHANGED fetchResponse
                 ELSE /\ fetchResponse' = ResponseAfterHook(fetchResponse, value)
                      /\ i' = i + 1
                      /\ pc' = "fetchDidSucceed"
                      /\ UNCHANGED error
              /\ replacement' =
                    IF ~out.threw /\ value # Undefined THEN value ELSE replacement
    /\ running' = running \ {Activity(FETCH_DID_SUCCEED, i)}
    /\ UNCHANGED <<plugins, event, fetchOptions, request, failedFetchPlugins,
                   originalRequest, result, calls, fetchCalls, preloadAwaits>>

\* A loop that returns from inside its body, before the remaining hooks.
ReturnResponseEarly ==
    /\ pc = "fetchDidSucceed"
    /\ result' = Returned(fetchResponse)
    /\ pc' = "done"
    /\ UNCHANGED <<plugins, event, fetchOptions, request, failedFetchPlugins,
                   originalRequest, pluginFilteredRequest, fetchResponse,
                   error, i, calls, last, replacement, fetchCalls,
                   preloadAwaits, running>>

\* Line 154: return fetchResponse.
ReturnResponse ==
    /\ pc = "fetchDidSucceed"
    /\ i > Len(plugins)
    /\ result' = Returned(fetchResponse)
    /\ pc' = "done"
    /\ UNCHANGED <<plugins, event, fetchOptions, request, failedFetchPlugins,
                   originalRequest, pluginFilteredRequest, fetchResponse,
                   error, i, calls, last, replacement, fetchCalls,
                   preloadAwaits, running>>

\* A loop that hands every fetchDidFail hook the two saved requests
\* themselves.
FetchDidFailArgumentsShared(k) ==
    [error |-> error, originalRequest |-> originalRequest,
     request |-> pluginFilteredRequest]

\* Lines 162-167: the arguments of the k-th fetchDidFail hook: the caught
\* error and a clone of each of the two saved requests.
FetchDidFailArguments(k) ==
    [error |-> error,
     originalRequest |-> Clone(originalRequest, Id("originalRequest", k)),
     request |-> Clone(pluginFilteredRequest, Id("request", k))]

\* A loop that calls the hook without awaiting it and goes on to the next.
FetchDidFailNotAwaited ==
    /\ pc' = "fetchDidFail"
    /\ i' = i + 1

\* Line 162: the await suspends wrappedFetch until the hook settles.
FetchDidFailAwaited ==
    /\ pc' = "fetchDidFailAwait"
    /\ UNCHANGED i

\* Lines 161-168: clone originalRequest and pluginFilteredRequest and call
\* the next fetchDidFail hook with the clones.  A TypeError of a clone()
\* leaves wrappedFetch.
FetchDidFailCall ==
    /\ pc = "fetchDidFail"
    /\ i <= Len(failedFetchPlugins)
    /\ IF ~CanClone(originalRequest)
       THEN /\ result' = Threw(TypeError("originalRequest", i))
            /\ pc' = "done"
            /\ UNCHANGED <<i, calls, last, running>>
       ELSE IF ~CanClone(pluginFilteredRequest)
       THEN /\ result' = Threw(TypeError("request", i))
            /\ pc' = "done"
            /\ UNCHANGED <<i, calls, last, running>>
       ELSE LET plugin == failedFetchPlugins[i]
            IN  /\ calls' = Append(calls, Activity(FETCH_DID_FAIL, plugin))
                /\ last' = [last EXCEPT ![FETCH_DID_FAIL] =
                              Call(plugin, FetchDidFailArguments(i),
                                   [read |-> FALSE], Pending)]
                /\ running' = running \cup {Activity(FETCH_DID_FAIL, plugin)}
                /\ FetchDidFailAwaited
                /\ UNCHANGED result
    /\ UNCHANGED <<plugins, event, fetchOptions, request, failedFetchPlugins,
                   originalRequest, pluginFilteredRequest, fetchResponse,
                   error, replacement, fetchCalls, preloadAwaits>>

\* A loop that catches the error of a fetchDidFail hook and goes on.
FetchDidFailSwallowed(err) ==
    /\ i' = i + 1
    /\ pc' = "fetchDidFail"
    /\ UNCHANGED result

\* Lines 161-168: what the loop does after a fetchDidFail hook threw err:
\* nothing catches it, so it leaves wrappedFetch.
FetchDidFailThrew(err) ==
    /\ result' = Threw(err)
    /\ pc' = "done"
    /\ UNCHANGED i

\* Lines 162-168: the hook settles.  What it returns is ignored; its error
\* leaves wrappedFetch.
FetchDidFailSettle ==
    /\ pc = "fetchDidFailAwait"
    /\ \E threw \in BOOLEAN :
          LET c == last[FETCH_DID_FAIL]
              err == Thrown(FETCH_DID_FAIL, c.plugin)
          IN  /\ last' = [last EXCEPT ![FETCH_DID_FAIL] =
                            Call(c.plugin, c.args, [read |-> FALSE],
                                 IF threw THEN Threw(err) ELSE Returned(Undefined))]
              /\ running' = running \ {Activity(FETCH_DID_FAIL, c.plugin)}
              /\ IF threw
                 THEN FetchDidFailThrew(err)
                 ELSE /\ i' = i + 1
                      /\ pc' = "fetchDidFail"
                      /\ UNCHANGED result
    /\ UNCHANGED <<plugins, event, fetchOptions, request, failedFetchPlugins,
                   originalRequest, pluginFilteredRequest, fetchResponse,
                   error, calls, replacement, fetchCalls, preloadAwaits>>

\* A second catch that wraps the error as the first catch does.
RethrownWrapped(caught) ==
    WorkboxError("plugin-error-request-will-fetch", [thrownError |-> caught])

\* Line 170: the error wrappedFetch throws after the fetchDidFail loop.
Rethrown(caught) == caught

\* A second catch that rethrows without waiting for the loop to end.
RethrowEarly ==
    /\ pc = "fetchDidFail"
    /\ result' = Threw(error)
    /\ pc' = "done"
    /\ UNCHANGED <<plugins, event, fetchOptions, request, failedFetchPlugins,
                   originalRequest, pluginFilteredRequest, fetchResponse,
                   error, i, calls, last, replacement, fetchCalls,
                   preloadAwaits, running>>

\* Line 170: throw error.
Rethrow ==
    /\ pc = "fetchDidFail"
    /\ i > Len(failedFetchPlugins)
    /\ result' = Threw(Rethrown(error))
    /\ pc' = "done"
    /\ UNCHANGED <<plugins, event, fetchOptions, request, failedFetchPlugins,
                   originalRequest, pluginFilteredRequest, fetchResponse,
                   error, i, calls, last, replacement, fetchCalls,
                   preloadAwaits, running>>

Next ==
    \/ Start
    \/ AwaitPreload
    \/ FilterFailed
    \/ RequestWillFetchSkip
    \/ RequestWillFetchCall
    \/ RequestWillFetchSettle
    \/ CloneFiltered
    \/ Fetch
    \/ FetchSettle
    \/ FetchDidSucceedSkip
    \/ FetchDidSucceedCall
    \/ FetchDidSucceedSettle
    \/ ReturnResponse
    \/ FetchDidFailCall
    \/ FetchDidFailSettle
    \/ Rethrow

Spec == Init /\ [][Next]_vars


\* The same invocation with a preload promise that settles without
\* rejecting: every behaviour of it is a behaviour of Spec.
PreloadResolutions == {o \in PreloadOutcomes : o.kind = "return"}

AwaitPreloadResolved ==
    /\ pc = "preload"
    /\ \E settled \in PreloadResolutions :
          /\ preloadAwaits' = Append(preloadAwaits, settled)
          /\ PreloadNext(settled)
    /\ UNCHANGED <<plugins, event, fetchOptions, request, failedFetchPlugins,
                   originalRequest, pluginFilteredRequest, fetchResponse,
                   error, i, calls, last, replacement, fetchCalls,
                   running>>

NextResolved ==
    \/ Start
    \/ AwaitPreloadResolved
    \/ FilterFailed
    \/ RequestWillFetchSkip
    \/ RequestWillFetchCall
    \/ RequestWillFetchSettle
    \/ CloneFiltered
    \/ Fetch
    \/ FetchSettle
    \/ FetchDidSucceedSkip
    \/ FetchDidSucceedCall
    \/ FetchDidSucceedSettle
    \/ ReturnResponse
    \/ FetchDidFailCall
    \/ FetchDidFailSettle
    \/ Rethrow

SpecResolved == Init /\ [][NextResolved]_vars

(***************************************************************************)
(* Reading the history                                                     *)
(***************************************************************************)
\* The plugins whose `hook` was invoked so far, in the order of invocation.
Invoked(hook) ==
    LET hs == SelectSeq(calls, LAMBDA c : c.hook = hook)
    IN  [k \in 1..Len(hs) |-> hs[k].plugin]

\* The plugins of the list that implement `hook`.
Implementing(hook) == {k \in 1..Len(plugins) : hook \in plugins[k]}

\* A sequence of plugin indices in registration order, none twice.
InRegistrationOrder(seq) ==
    \A a, b \in 1..Len(seq) : a < b => seq[a] < seq[b]

Range(seq) == {seq[k] : k \in 1..Len(seq)}

Called(hook) == last[hook] # NoCall
HookThrew(hook) == Called(hook) /\ last[hook].outcome.kind = "throw"
HookReturned(hook) == Called(hook) /\ last[hook].outcome.kind = "return"

\* The error fetch() rejects with.
TransmissionError == Thrown("fetch", 0)

\* The response fetch() resolves to.
TransmissionResponse == Response(Id("fetch", 0))

Failed == pc = "done" /\ result.kind = "throw"


(***************************************************************************)
(* Claims                                                                  *)
(***************************************************************************)
\* C1: if a requestWillFetch hook throws E, the invocation fails with a
\* WorkboxError named "plugin-error-request-will-fetch" whose details carry
\* E as thrownError, fetch() was never called and no fetchDidFail hook was
\* invoked.
C1_RequestWillFetchThrowWrapped ==
    HookThrew(REQUEST_WILL_FETCH) =>
        /\ Failed
        /\ result.error.kind = "WorkboxError"
        /\ result.error.name = "plugin-error-request-will-fetch"
        /\ result.error.details.thrownError = last[REQUEST_WILL_FETCH].outcome.error
        /\ fetchCalls = <<>>
        /\ Invoked(FETCH_DID_FAIL) = <<>>

\* C1 witness: the second of two requestWillFetch hooks threw, with a
\* fetchDidFail plugin registered.
C1_Witness ==
    /\ HookThrew(REQUEST_WILL_FETCH)
    /\ Len(Invoked(REQUEST_WILL_FETCH)) = 2
    /\ Len(failedFetchPlugins) > 0
    /\ Failed

\* C2: if fetch() throws E and no fetchDidFail hook throws, every plugin
\* with fetchDidFail is invoked exactly once, in registration order, while
\* the invocation is still running, and the invocation then throws E itself.
C2_FailureHooksThenSameError ==
    /\ (pc # "done" => result = Pending)
    /\ (/\ pc = "done"
        /\ error = TransmissionError
        /\ ~HookThrew(FETCH_DID_FAIL))
       => /\ Range(Invoked(FETCH_DID_FAIL)) = Implementing(FETCH_DID_FAIL)
          /\ InRegistrationOrder(Invoked(FETCH_DID_FAIL))
          /\ result = Threw(TransmissionError)

\* C2 witness: fetch() threw, two fetchDidFail hooks ran, E was rethrown.
C2_Witness ==
    /\ pc = "done"
    /\ error = TransmissionError
    /\ Invoked(FETCH_DID_FAIL) = <<1, 2>>
    /\ result = Threw(TransmissionError)

\* C3: when the requestWillFetch hooks return (unread) requests, fetch() is called
\* once, with the very object the last of them returned.
C3_TransmissionGetsLastReplacement ==
    /\ (fetchCalls # <<>> /\ Called(REQUEST_WILL_FETCH))
       => /\ Len(fetchCalls) = 1
          /\ HookReturned(REQUEST_WILL_FETCH)
          /\ fetchCalls[1].request = last[REQUEST_WILL_FETCH].outcome.value
    /\ (/\ pc = "done"
        /\ HookReturned(REQUEST_WILL_FETCH)
        /\ CanClone(last[REQUEST_WILL_FETCH].outcome.value))
       => Len(fetchCalls) = 1

\* C3 witness: two hooks each returned a request of their own and fetch()
\* was called with the second one's.
C3_Witness ==
    /\ Len(fetchCalls) = 1
    /\ Invoked(REQUEST_WILL_FETCH) = <<1, 2>>
    /\ fetchCalls[1].request.id = Id(REQUEST_WILL_FETCH, 2)
    /\ fetchCalls[1].request.url = 2

\* C4: when a requestWillFetch hook returns nothing, the current request
\* stays what it was before the hook (the request the hook was handed a
\* clone of), and the invocation does not fail for the missing value.
C4_NothingReturnedKeepsRequest ==
    (HookReturned(REQUEST_WILL_FETCH)
     /\ last[REQUEST_WILL_FETCH].outcome.value = Undefined)
    => /\ IsRequest(request)
       /\ request.url = last[REQUEST_WILL_FETCH].args.request.url
       /\ (fetchCalls = <<>> => ~Failed)

\* C5: when a fetchDidSucceed hook returns nothing, the current response is
\* unchanged, so it is also what the invocation returns when that hook was
\* the last one.
C5_NothingReturnedKeepsResponse ==
    (HookReturned(FETCH_DID_SUCCEED)
     /\ last[FETCH_DID_SUCCEED].outcome.value = Undefined)
    => /\ fetchResponse = last[FETCH_DID_SUCCEED].args.response
       /\ (result.kind = "return"
           => result.value = last[FETCH_DID_SUCCEED].args.response)

\* C6: once a fetchDidSucceed hook has returned a replacement, the latest
\* such replacement is the current response: the one the later hooks are
\* handed and the one the invocation returns.
C6_ReplacementPropagates ==
    replacement # Undefined
    => /\ (pc = "fetchDidSucceed" => fetchResponse = replacement)
       /\ (result.kind = "return" => result.value = replacement)

\* C7: when the event is a FetchEvent whose preloadResponse resolves to a
\* response, the invocation returns that response; no hook is invoked and
\* fetch() is not called.
C7_PreloadShortCircuits ==
    (/\ preloadAwaits # <<>>
     /\ preloadAwaits[1].kind = "return"
     /\ preloadAwaits[1].value # Undefined)
    => /\ pc = "done"
       /\ result = Returned(preloadAwaits[1].value)
       /\ calls = <<>>
       /\ fetchCalls = <<>>

\* C7 witness: a preloaded response was returned although the plugin list
\* has all three hooks.
C7_Witness ==
    /\ pc = "done"
    /\ result = Returned(Response(Id("preload", 0)))
    /\ Len(plugins) = 2
    /\ \A h \in Hooks : Implementing(h) # {}

\* C8: fetch() is called at most once per invocation: not at all when a
\* preloaded response is used, exactly once when none is used and no
\* requestWillFetch hook throws.
C8_TransmissionExactlyOnce ==
    /\ Len(fetchCalls) <= 1
    /\ pc = "done" =>
          IF preloadAwaits # <<>> /\ result = Returned(preloadAwaits[1].value)
          THEN fetchCalls = <<>>
          ELSE ~HookThrew(REQUEST_WILL_FETCH) => Len(fetchCalls) = 1

\* C9: if a fetchDidFail hook throws F while the chain runs for E, the
\* fetchDidFail hooks after it are not invoked and the invocation fails
\* with F, not E.
C9_FailureHookErrorPreempts ==
    HookThrew(FETCH_DID_FAIL) =>
        /\ Failed
        /\ result.error = last[FETCH_DID_FAIL].outcome.error
        /\ result.error # error
        /\ last[FETCH_DID_FAIL].args.error = error
        /\ calls[Len(calls)] =
              [hook |-> FETCH_DID_FAIL, plugin |-> last[FETCH_DID_FAIL].plugin]

\* C9 witness: fetch() threw, the first of two fetchDidFail hooks threw and
\* the second was never invoked.
C9_Witness ==
    /\ HookThrew(FETCH_DID_FAIL)
    /\ error = TransmissionError
    /\ Len(failedFetchPlugins) = 2
    /\ Invoked(FETCH_DID_FAIL) = <<1>>
    /\ Failed

\* C10 as stated: once the failure chain starts every plugin of
\* failedFetchPlugins is invoked, also when one of the hooks throws.
C10_NoEarlyExit ==
    (pc = "done" /\ HookThrew(FETCH_DID_FAIL))
    => Invoked(FETCH_DID_FAIL) = failedFetchPlugins

\* C10 as amended: the fetchDidFail hooks run one after the other in the
\* order of failedFetchPlugins, each at most once; the caught error is
\* rethrown only after all of them were invoked, and a hook that throws
\* ends the chain, leaving the hooks after it uninvoked.
C10_ChainEndsAtFirstThrow ==
    /\ Len(Invoked(FETCH_DID_FAIL)) <= Len(failedFetchPlugins)
    /\ Invoked(FETCH_DID_FAIL) =
          SubSeq(failedFetchPlugins, 1, Len(Invoked(FETCH_DID_FAIL)))
    /\ (pc = "done" /\ error # Undefined /\ result = Threw(error))
       => Invoked(FETCH_DID_FAIL) = failedFetchPlugins
    /\ HookThrew(FETCH_DID_FAIL)
       => /\ pc = "done"
          /\ failedFetchPlugins[Len(Invoked(FETCH_DID_FAIL))]
                = last[FETCH_DID_FAIL].plugin

\* C10 witness: a fetchDidSucceed hook threw, the first of two fetchDidFail
\* hooks threw in turn and the second was never invoked.
C10_Witness ==
    /\ pc = "done"
    /\ HookThrew(FETCH_DID_SUCCEED)
    /\ HookThrew(FETCH_DID_FAIL)
    /\ Len(failedFetchPlugins) = 2
    /\ Len(Invoked(FETCH_DID_FAIL)) = 1


\* C11: if fetch() succeeds and a fetchDidSucceed hook throws E, no later
\* fetchDidSucceed hook is invoked, the fetchDidFail hooks all run for E
\* and, unless one of them throws, the invocation fails with E itself.
C11_SuccessHookErrorRunsFailureChain ==
    HookThrew(FETCH_DID_SUCCEED) =>
        /\ Invoked(FETCH_DID_SUCCEED)[Len(Invoked(FETCH_DID_SUCCEED))]
              = last[FETCH_DID_SUCCEED].plugin
        /\ error = last[FETCH_DID_SUCCEED].outcome.error
        /\ result.kind # "return"
        /\ (pc = "done" /\ ~HookThrew(FETCH_DID_FAIL))
           => /\ Invoked(FETCH_DID_FAIL) = failedFetchPlugins
              /\ result = Threw(last[FETCH_DID_SUCCEED].outcome.error)

\* C12: when fetch() and every fetchDidSucceed hook completed without
\* throwing, every fetchDidSucceed hook has run, in registration order, no
\* fetchDidFail hook was invoked, and the invocation returns fetchResponse
\* as the last hook left it.
C12_SuccessPathReturnsWithoutFailureHooks ==
    /\ (pc = "done" /\ fetchCalls # <<>> /\ error = Undefined)
       => /\ result = Returned(fetchResponse)
          /\ result.value = IF Called(FETCH_DID_SUCCEED)
                            THEN last[FETCH_DID_SUCCEED].outcome.value
                            ELSE TransmissionResponse
          /\ Range(Invoked(FETCH_DID_SUCCEED)) = Implementing(FETCH_DID_SUCCEED)
          /\ InRegistrationOrder(Invoked(FETCH_DID_SUCCEED))
          /\ HookReturned(FETCH_DID_SUCCEED) \/ ~Called(FETCH_DID_SUCCEED)
          /\ running = {}
    /\ Invoked(FETCH_DID_FAIL) # <<>> => error # Undefined

\* C12 witness: two fetchDidSucceed hooks ran, the invocation returned the
\* response of the second, and a registered fetchDidFail hook was not
\* invoked.
C12_Witness ==
    /\ pc = "done"
    /\ Invoked(FETCH_DID_SUCCEED) = <<1, 2>>
    /\ result = Returned(Response(Id(FETCH_DID_SUCCEED, 2)))
    /\ Len(failedFetchPlugins) > 0
    /\ Invoked(FETCH_DID_FAIL) = <<>>


\* The step in which a requestWillFetch hook is called.
RequestWillFetchCalled ==
    /\ Len(calls') = Len(calls) + 1
    /\ calls'[Len(calls')].hook = REQUEST_WILL_FETCH

\* The step in which the running requestWillFetch hook settles, returning.
RequestWillFetchReturned ==
    /\ pc = "requestWillFetchAwait"
    /\ pc' = "requestWillFetch"

\* C13: every requestWillFetch hook is handed a duplicate of its own of the
\* current request: a new object, unread, with the content of the current
\* request, which itself stays unread while the hook runs.  Whether the
\* hook read its copy makes no difference to what follows: the request it
\* returns becomes the current request, from which the next hook's copy and
\* the transmission are taken.
C13_EachHookGetsItsOwnReadableCopy ==
    [][/\ RequestWillFetchCalled =>
            LET copy == last'[REQUEST_WILL_FETCH].args.request
            IN  /\ IsRequest(copy) /\ ~copy.bodyUsed
                /\ copy.url = request.url /\ copy.mode = request.mode
                /\ copy.id # request.id
                /\ originalRequest # Null => copy.id # originalRequest.id
                /\ request' = request /\ ~request'.bodyUsed
                /\ HookReturned(REQUEST_WILL_FETCH)
                   => request = last[REQUEST_WILL_FETCH].outcome.value
       /\ RequestWillFetchReturned =>
            LET c == last'[REQUEST_WILL_FETCH]
            IN  /\ ~request.bodyUsed
                /\ request' = c.outcome.value
                /\ (IsRequest(c.outcome.value)
                    /\ c.outcome.value.id # c.args.request.id)
                   => CanClone(request')
      ]_vars

\* C13 witness: the second hook was handed an unread copy of the request
\* the first hook returned, read it, returned a request of its own, and
\* that request was transmitted.
C13_Witness ==
    /\ HookReturned(REQUEST_WILL_FETCH)
    /\ last[REQUEST_WILL_FETCH].plugin = 2
    /\ last[REQUEST_WILL_FETCH].read
    /\ last[REQUEST_WILL_FETCH].args.request.url = 1
    /\ ~last[REQUEST_WILL_FETCH].args.request.bodyUsed
    /\ Len(fetchCalls) = 1
    /\ fetchCalls[1].request.id = Id(REQUEST_WILL_FETCH, 2)


\* A hook that was started and has not completed.
HookRunning(hook) == Called(hook) /\ last[hook].outcome = Pending

AwaitPoints ==
    {"requestWillFetchAwait", "fetchAwait", "fetchDidSucceedAwait",
     "fetchDidFailAwait"}

\* C14: at most one hook or transmission is in flight, and it is the one
\* most recently started: a hook starts only after the one before it has
\* completed.  A hook is handed what its predecessor substituted.  The
\* transmission starts after every requestWillFetch hook has returned, and
\* no fetchDidSucceed or fetchDidFail hook starts before the transmission
\* has settled.
C14_HooksRunOneAtATimeInOrder ==
    /\ Cardinality(running) <= 1
    /\ running # {} <=> pc \in AwaitPoints
    /\ \A h \in Hooks :
          HookRunning(h) => /\ Activity(h, last[h].plugin) \in running
                            /\ calls[Len(calls)] = Activity(h, last[h].plugin)
    /\ \A a \in running :
          \/ a = Transmission
          \/ a.hook \in Hooks /\ HookRunning(a.hook) /\ last[a.hook].plugin = a.plugin
    /\ fetchCalls = <<>>
       => Invoked(FETCH_DID_SUCCEED) = <<>> /\ Invoked(FETCH_DID_FAIL) = <<>>
    /\ Transmission \in running
       => Invoked(FETCH_DID_SUCCEED) = <<>> /\ Invoked(FETCH_DID_FAIL) = <<>>
    /\ fetchCalls # <<>>
       => /\ Range(Invoked(REQUEST_WILL_FETCH)) = Implementing(REQUEST_WILL_FETCH)
          /\ InRegistrationOrder(Invoked(REQUEST_WILL_FETCH))
          /\ ~Called(REQUEST_WILL_FETCH) \/ HookReturned(REQUEST_WILL_FETCH)
    /\ (Invoked(FETCH_DID_SUCCEED) # <<>> \/ Invoked(FETCH_DID_FAIL) # <<>>)
       => Len(fetchCalls) = 1 /\ pc # "fetchAwait"
    /\ HookRunning(REQUEST_WILL_FETCH)
       => /\ last[REQUEST_WILL_FETCH].args.request.url = request.url
          /\ last[REQUEST_WILL_FETCH].args.request.mode = request.mode
    /\ (pc = "requestWillFetch" /\ HookReturned(REQUEST_WILL_FETCH))
       => request = last[REQUEST_WILL_FETCH].outcome.value
    /\ HookRunning(FETCH_DID_SUCCEED)
       => last[FETCH_DID_SUCCEED].args.response = fetchResponse
    /\ (pc = "fetchDidSucceed" /\ HookReturned(FETCH_DID_SUCCEED))
       => fetchResponse = last[FETCH_DID_SUCCEED].outcome.value

\* C14 witness: the second fetchDidFail hook is running, alone, after the
\* first one completed, after a transmission that followed two
\* requestWillFetch hooks, the second of which got the first one's request.
C14_Witness ==
    /\ running = {Activity(FETCH_DID_FAIL, 2)}
    /\ Invoked(FETCH_DID_FAIL) = <<1, 2>>
    /\ Invoked(REQUEST_WILL_FETCH) = <<1, 2>>
    /\ last[REQUEST_WILL_FETCH].args.request.id = Id("requestClone", 2)
    /\ last[REQUEST_WILL_FETCH].args.request.url = 1
    /\ Len(fetchCalls) = 1


\* C15: a fetchDidSucceed hook is never handed a request whose body was
\* already read, and the duplication of the filtered request for the
\* failure chain never fails because a hook read the body.
C15_NoSharedSingleReadRequest ==
    /\ Called(FETCH_DID_SUCCEED)
       => ~last[FETCH_DID_SUCCEED].args.request.bodyUsed
    /\ (pc = "fetchDidFail" /\ i <= Len(failedFetchPlugins))
       => CanClone(pluginFilteredRequest)
    /\ \A k \in 1..Len(plugins) : result # Threw(TypeError("request", k))


\* Two requests with the same content (url and mode).
SameContent(a, b) == IsRequest(a) /\ IsRequest(b) /\ a.url = b.url /\ a.mode = b.mode

\* wrappedFetch went past lines 75-82 (it did not leave with the preload
\* promise).
PastFilter ==
    /\ pc \notin {"start", "preload", "filter"}
    /\ preloadAwaits = <<>> \/ preloadAwaits[1] = Returned(Undefined)

\* What C16 says of every state.
C16_State ==
    /\ pc \in {"start", "preload", "filter"} => calls = <<>> /\ originalRequest = Null
    /\ PastFilter => (originalRequest = Null <=> Implementing(FETCH_DID_FAIL) = {})
    /\ (pc = "fetchDidFail" /\ i <= Len(failedFetchPlugins)) => CanClone(originalRequest)
    /\ \A k \in 1..Len(plugins) : result # Threw(TypeError("originalRequest", k))
    /\ Called(FETCH_DID_FAIL) =>
          LET a == last[FETCH_DID_FAIL].args
              n == Len(Invoked(FETCH_DID_FAIL))
          IN  /\ a.error = error
              /\ a.originalRequest.id = Id("originalRequest", n)
              /\ a.originalRequest.id # originalRequest.id
              /\ ~a.originalRequest.bodyUsed
              /\ SameContent(a.originalRequest, originalRequest)
              /\ a.request.id = Id("request", n)
              /\ a.request.id # pluginFilteredRequest.id
              /\ a.request.id # fetchCalls[1].request.id
              /\ ~a.request.bodyUsed
              /\ SameContent(a.request, pluginFilteredRequest)
              /\ SameContent(a.request, fetchCalls[1].request)

\* What C16 says of every step: originalRequest is set once, before any
\* hook, to a copy of the caller's request, and is never assigned again.
C16_Step ==
    IF pc = "filter"
    THEN /\ request \in {Normalize(r) : r \in CallerRequests}
         /\ originalRequest' # Null
            => /\ SameContent(originalRequest', request)
               /\ originalRequest'.id # request.id
               /\ ~originalRequest'.bodyUsed
    ELSE originalRequest' = originalRequest

\* C16: every fetchDidFail hook is called with the caught error, a new
\* unread clone of originalRequest and a new unread clone of the filtered
\* request.  originalRequest is a copy of the caller's request taken before
\* any requestWillFetch hook ran; the filtered request has the content of
\* the request fetch() was called with.  originalRequest is null exactly
\* when no plugin implements fetchDidFail, so its clone() in the failure
\* loop never fails.
C16_FailureHooksGetFreshDuplicates == []C16_State /\ [][C16_Step]_vars

\* C16 witness: the second fetchDidFail hook was handed a clone of the
\* caller's navigation request and a clone of the request a
\* requestWillFetch hook had substituted, which fetch() was called with.
C16_Witness ==
    /\ Invoked(FETCH_DID_FAIL) = <<1, 2>>
    /\ HookReturned(FETCH_DID_FAIL)
    /\ last[FETCH_DID_FAIL].args.originalRequest = Request(Id("originalRequest", 2), 0, "navigate")
    /\ last[FETCH_DID_FAIL].args.request = Request(Id("request", 2), 1, "cors")
    /\ fetchCalls[1].request.id = Id(REQUEST_WILL_FETCH, 1)


\* The plugins seq names are the first ones of `set`, in ascending order.
FirstOf(seq, set) ==
    /\ InRegistrationOrder(seq)
    /\ Range(seq) \subseteq set
    /\ \A k \in Range(seq) : \A j \in set : j < k => j \in Range(seq)

\* C17: in each of the three chains the hooks invoked are those of the
\* plugins that implement the hook, and of no other plugin, none twice, in
\* the order of the plugin list; a chain that runs to its end has invoked
\* every one of them.  Plugins without the hook have no part in it.
C17_ExactlyImplementingInOrder ==
    /\ \A h \in Hooks : FirstOf(Invoked(h), Implementing(h))
    /\ \A k \in 1..Len(calls) : calls[k].hook \in plugins[calls[k].plugin]
    /\ fetchCalls # <<>>
       => Range(Invoked(REQUEST_WILL_FETCH)) = Implementing(REQUEST_WILL_FETCH)
    /\ (pc = "done" /\ result.kind = "return" /\ fetchCalls # <<>>)
       => Range(Invoked(FETCH_DID_SUCCEED)) = Implementing(FETCH_DID_SUCCEED)
    /\ (pc = "done" /\ error # Undefined /\ result = Threw(error))
       => Range(Invoked(FETCH_DID_FAIL)) = Implementing(FETCH_DID_FAIL)

\* C17 witness: of two plugins, only the second has requestWillFetch and
\* only the first has fetchDidFail; each chain ran over its one plugin.
C17_Witness ==
    /\ pc = "done"
    /\ plugins = <<{FETCH_DID_FAIL}, {REQUEST_WILL_FETCH}>>
    /\ calls = <<Activity(REQUEST_WILL_FETCH, 2), Activity(FETCH_DID_FAIL, 1)>>
    /\ result = Threw(TransmissionError)


\* C18: fetch() is called with the request as the requestWillFetch chain
\* left it.  When that request is a navigation, fetch() is called with the
\* request alone, whatever fetchOptions is; otherwise it is called with the
\* request and fetchOptions as the caller gave it.
C18_TransmissionArguments ==
    fetchCalls # <<>> =>
        LET f == fetchCalls[1]
        IN  /\ IsRequest(f.request) /\ ~f.request.bodyUsed
            /\ IF Called(REQUEST_WILL_FETCH)
               THEN f.request = last[REQUEST_WILL_FETCH].outcome.value
               ELSE f.request \in {Normalize(r) : r \in CallerRequests}
            /\ SameContent(f.request, request)
            /\ f.request.id = request.id
            /\ IF f.request.mode = "navigate"
               THEN f.argc = 1 /\ f.options = Undefined
               ELSE f.argc = 2 /\ f.options = fetchOptions

\* C18 witness: the caller gave fetchOptions, the request a requestWillFetch
\* hook handed on is a navigation, and fetch() got the request alone.
C18_Witness ==
    /\ fetchOptions # Undefined
    /\ Len(fetchCalls) = 1
    /\ HookReturned(REQUEST_WILL_FETCH)
    /\ fetchCalls[1].request.mode = "navigate"
    /\ fetchCalls[1].argc = 1


\* The steps of wrappedFetch from line 75 on: the pipeline after the
\* preload branch.
Pipeline ==
    \/ FilterFailed
    \/ RequestWillFetchSkip
    \/ RequestWillFetchCall
    \/ RequestWillFetchSettle
    \/ CloneFiltered
    \/ Fetch
    \/ FetchSettle
    \/ FetchDidSucceedSkip
    \/ FetchDidSucceedCall
    \/ FetchDidSucceedSettle
    \/ ReturnResponse
    \/ FetchDidFailCall
    \/ FetchDidFailSettle
    \/ Rethrow

\* The preload promise gave no response: it was not awaited, or it
\* resolved to nothing.
NoPreloadResponse(awaits) == awaits = <<>> \/ awaits = <<Returned(Undefined)>>

\* Where the pipeline without lines 54-63 is, when wrappedFetch is at pc:
\* awaiting the preload promise happens between line 49 and line 75.
WithoutPreload(at) == IF at = "preload" THEN "filter" ELSE at

\* A step of the pipeline without lines 54-63, seen through WithoutPreload:
\* lines 47-49 followed by line 75, or a step from line 75 on, or no step.
StepWithoutPreload ==
    \/ /\ WithoutPreload(pc) = "start"
       /\ WithoutPreload(pc') = "filter"
       /\ request' = Normalize(request)
       /\ UNCHANGED <<plugins, event, fetchOptions, failedFetchPlugins,
                      originalRequest, pluginFilteredRequest, fetchResponse,
                      error, i, result, calls, last, replacement, fetchCalls,
                      running>>
    \/ /\ pc \notin {"start", "preload"}
       /\ Pipeline
       /\ UNCHANGED <<event, preloadAwaits>>
    \/ /\ WithoutPreload(pc') = WithoutPreload(pc)
       /\ UNCHANGED <<plugins, event, fetchOptions, request, failedFetchPlugins,
                      originalRequest, pluginFilteredRequest, fetchResponse,
                      error, i, result, calls, last, replacement, fetchCalls,
                      running>>

\* C19: as long as the preload promise gave no response (there is no
\* event, the event has no preloadResponse, or the promise resolved to
\* nothing), every step of wrappedFetch is a step of the pipeline without
\* the preload branch: the same hook calls, the same fetch(), the same
\* result.  The promise is awaited at most once, and only when the event
\* is a FetchEvent that has one.
C19_NoPreloadSamePipeline ==
    /\ [](/\ Len(preloadAwaits) <= 1
          /\ preloadAwaits # <<>> => HasPreload(event)
          /\ pc = "preload" => HasPreload(event) /\ preloadAwaits = <<>>)
    /\ [][NoPreloadResponse(preloadAwaits') => StepWithoutPreload]_vars

\* C19 witness: the preload promise resolved to nothing, and the
\* invocation went through a requestWillFetch hook, fetch() and a
\* fetchDidFail hook and failed with the error of fetch().
C19_Witness ==
    /\ preloadAwaits = <<Returned(Undefined)>>
    /\ pc = "done"
    /\ Invoked(REQUEST_WILL_FETCH) # <<>>
    /\ Len(fetchCalls) = 1
    /\ Invoked(FETCH_DID_FAIL) # <<>>
    /\ result = Threw(TransmissionError)


\* C20: when event.preloadResponse rejects with P, the invocation fails
\* with P itself, not wrapped in a WorkboxError; no hook is invoked and
\* fetch() is not called.
C20_PreloadRejectionPropagates ==
    (preloadAwaits # <<>> /\ preloadAwaits[1].kind = "throw")
    => /\ pc = "done"
       /\ result = Threw(preloadAwaits[1].error)
       /\ result.error.kind # "WorkboxError"
       /\ calls = <<>>
       /\ \A h \in Hooks : ~Called(h)
       /\ fetchCalls = <<>>
       /\ running = {}

\* C20 witness: the preload promise rejected and the invocation failed with
\* its error, although the plugin list has all three hooks.
C20_Witness ==
    /\ pc = "done"
    /\ preloadAwaits = <<Threw(Thrown("preload", 0))>>
    /\ result = Threw(Thrown("preload", 0))
    /\ Len(plugins) = 2
    /\ \A h \in Hooks : Implementing(h) # {}

====
